---- MODULE Spec2Model ----
(***************************************************************************)
(* A state-machine model of the custom menu bar of                         *)
(* src/vs/workbench/browser/parts/menubar/menubarPart.ts: the MenubarPart  *)
(* focus/visibility state machine, its deferred and debounced rebuild, and *)
(* the ModifierKeyEmitter singleton that feeds it.                         *)
(*                                                                         *)
(* Every method of the part is an operator from a record of the part's     *)
(* fields to the record after the call.  A handler that throws (a read of  *)
(* a property of undefined) stops where it throws: the record carries the  *)
(* flag `thrown`, and the assignments made before the throw are kept.      *)
(* The model is the non-macOS build with window.titleBarStyle = 'custom',  *)
(* the only configuration in which the custom bar and its listeners exist. *)
(***************************************************************************)
EXTENDS Integers, Sequences, FiniteSets, TLC

\* ------------------------------------------------------------------ bounds
\* Largest number of top-level menus under the full keyboard.
MaxMenus == 2
\* Largest number of top-level menus under the Alt-only keyboard.
MaxNavMenus == 5
\* Largest number of dropdown blur grace timers pending at once.
MaxTimers == 1
\* Largest number of top-level menus under the changing registry.
MaxRebuildMenus == 1
\* Number of times the menu registry's content changes.
MaxVersion == 1

\* the groups of a menu of the registry, and the actions of a group
MaxGroups == 2

MaxGroupLen == 1

\* the workspaces, and the files, of the recently opened list
MaxRecent == 6
\* the longest title or label drawn, in characters
MaxLabelLen == 4
\* how many times in a run the titles and labels are drawn again
MaxShown == 3

\* --------------------------------------------------------------- constants
\* enum MenubarState
HIDDEN == 0
VISIBLE == 1
FOCUSED == 2
OPEN == 3

MenubarState == {HIDDEN, VISIBLE, FOCUSED, OPEN}

\* MenuBarVisibility values of 'window.menuBarVisibility' that the part tells apart
MenuBarVisibility == {"toggle", "default"}

\* type ModifierKey, with "none" for undefined
ModifierKey == {"alt", "ctrl", "shift"}

\* ------------------------------------------------------------------- state
VARIABLES
    numMenus,            \* Object.keys(this.topLevelMenus).length
    menuBarVisibility,   \* configuration value 'window.menuBarVisibility'
    menuVersion,         \* content of the menu registry (a generation number)
    container,           \* this.container: "undefined", or its visibility style
    customMenus,         \* this.customMenus: defined?, and each button's actions
    focusState,          \* this._focusState
    focusedMenu,         \* this.focusedMenu
    focusToReturn,       \* this.focusToReturn is set
    updatePending,       \* this.updatePending
    menuUpdater,         \* this.menuUpdater has a timeout pending
    lastVisibility,      \* what this._onVisibilityChange fired last
    liveWidgets,         \* Menu widgets created and not disposed
    blurTimers,          \* pending setTimeout(cleanupCustomMenu, 100) callbacks
    widgetActions,       \* the action array the open dropdown was built from
    modifierKeyStatus,   \* this._modifierKeyStatus has been assigned
    keyStatus,           \* ModifierKeyEmitter._keyStatus
    recentlyOpened,      \* this.recentlyOpened: loaded?, and how many of each
    menuGroups,          \* menu.getActions() of one menu: its groups of actions
    menuActions,         \* the action list updateActions builds for that menu
    mnemonics,           \* configuration value 'window.enableMenuBarMnemonics'
    settings,            \* the configuration values the action labels depend on
    topLevelTitle,       \* this.topLevelTitles[menuTitle] of one button
    menuAction,          \* one action of the menu registry: its id and label
    titleElement,        \* innerHtml of this.customMenus[menuIndex].titleElement
    accessKey,           \* accessKey of the button's element
    actionLabel,         \* the label of the action pushed to the action list
    shown                \* history: what each rebuild displayed, oldest first

vars == <<numMenus, menuBarVisibility, menuVersion, container, customMenus,
          focusState, focusedMenu, focusToReturn, updatePending, menuUpdater,
          lastVisibility, liveWidgets, widgetActions, blurTimers,
          modifierKeyStatus, keyStatus, recentlyOpened, menuGroups, menuActions,
          mnemonics, settings, topLevelTitle, menuAction, titleElement,
          accessKey, actionLabel, shown>>

\* the variables of the titles and labels of one button and one action
labelVars == <<mnemonics, settings, topLevelTitle, menuAction, titleElement,
               accessKey, actionLabel, shown>>

\* the variables of the building of one menu's action list and labels
buildVars == <<recentlyOpened, menuGroups, menuActions, labelVars>>

\* this.focusedMenu when it is undefined or null
NoMenu == [present |-> FALSE, index |-> 0, widget |-> FALSE]

\* this.focusedMenu = { index: i }
MenuAt(i) == [present |-> TRUE, index |-> i, widget |-> FALSE]

\* this.focusedMenu = { index: i, holder, widget }
OpenMenuAt(i) == [present |-> TRUE, index |-> i, widget |-> TRUE]

\* no dropdown holds an action array
NoActionsHeld == [button |-> 0, list |-> "none"]

\* new Menu(holder, customMenu.actions, options): the dropdown of button i is
\* built from the array that is the button's action list
ActionsHeld(i) == [button |-> i, list |-> "shared"]

\* this.customMenus before the first setupCustomMenubar
NoMenus == [defined |-> FALSE, actions |-> << >>]

\* The fields of the part, as one record; `thrown` and `fired` describe the
\* handler that is running: whether it threw, and how many visibility-change
\* notifications it fired.
Cur ==
    [container |-> container, customMenus |-> customMenus,
     focusState |-> focusState, focusedMenu |-> focusedMenu,
     focusToReturn |-> focusToReturn, updatePending |-> updatePending,
     menuUpdater |-> menuUpdater, lastVisibility |-> lastVisibility,
     liveWidgets |-> liveWidgets, widgetActions |-> widgetActions,
     modifierKeyStatus |-> modifierKeyStatus,
     thrown |-> FALSE, fired |-> 0]

\* A handler has returned (or thrown): the part's fields are what it left.
Commit(s) ==
    /\ container' = s.container
    /\ customMenus' = s.customMenus
    /\ focusState' = s.focusState
    /\ focusedMenu' = s.focusedMenu
    /\ focusToReturn' = s.focusToReturn
    /\ updatePending' = s.updatePending
    /\ menuUpdater' = s.menuUpdater
    /\ lastVisibility' = s.lastVisibility
    /\ liveWidgets' = s.liveWidgets
    /\ widgetActions' = s.widgetActions
    /\ modifierKeyStatus' = s.modifierKeyStatus

\* A TypeError: the handler stops here.
Throw(s) == [s EXCEPT !.thrown = TRUE]

\* --------------------------------------------------------------- accessors
isVisible(s) == s.focusState >= VISIBLE

isFocused(s) == s.focusState >= FOCUSED

isOpen(s) == s.focusState >= OPEN

\* this.customMenus.length
NumButtons(s) == Len(s.customMenus.actions)

\* this.customMenus[i] is an element of a defined array
HasButton(s, i) == s.customMenus.defined /\ 0 <= i /\ i < NumButtons(s)

\* ------------------------------------------------- show / hide / dropdowns
\* getMenubarItemsDimensions(): the area of the buttons, or Dimension(0, 0)
\* while there are no buttons
getMenubarItemsDimensions(s) == IF s.customMenus.defined THEN "area" ELSE "zero"

\* hideMenubar(): fire Dimension(0, 0), then hide the container
hideMenubar(s) ==
    LET f == [s EXCEPT !.lastVisibility = "zero", !.fired = @ + 1]
    IN  IF f.container = "undefined" THEN Throw(f)
        ELSE [f EXCEPT !.container = "hidden"]

\* showMenubar(): fire the buttons' area, then show the container
showMenubar(s) ==
    LET f == [s EXCEPT !.lastVisibility = getMenubarItemsDimensions(s),
                       !.fired = @ + 1]
    IN  IF f.container = "undefined" THEN Throw(f)
        ELSE [f EXCEPT !.container = "visible"]

isCurrentMenu(s, menuIndex) ==
    s.focusedMenu.present /\ s.focusedMenu.index = menuIndex

\* cleanupCustomMenu(): dispose the focused menu's holder and widget, keep its index
cleanupCustomMenu(s) ==
    IF s.focusedMenu.present
    THEN [s EXCEPT !.liveWidgets = IF s.focusedMenu.widget THEN @ - 1 ELSE @,
                   !.widgetActions = IF s.focusedMenu.widget THEN NoActionsHeld ELSE @,
                   !.focusedMenu = MenuAt(s.focusedMenu.index)]
    ELSE s

\* showCustomMenu(menuIndex): create the dropdown of button menuIndex
showCustomMenu(s, menuIndex) ==
    IF ~HasButton(s, menuIndex) THEN Throw(s)
    ELSE [s EXCEPT !.liveWidgets = @ + 1,
                   !.widgetActions = ActionsHeld(menuIndex),
                   !.focusedMenu = OpenMenuAt(menuIndex)]

\* ------------------------------------------------------ the state machine
\* case MenubarState.HIDDEN of the focusState setter
EnterHidden(s) ==
    LET a == IF isVisible(s) THEN hideMenubar(s) ELSE s
        b == IF a.thrown THEN a ELSE IF isOpen(a) THEN cleanupCustomMenu(a) ELSE a
    IN  IF b.thrown THEN b
        ELSE IF isFocused(b)
             THEN [b EXCEPT !.focusedMenu = NoMenu, !.focusToReturn = FALSE]
             ELSE b

\* case MenubarState.VISIBLE of the focusState setter
EnterVisible(s) ==
    LET a == IF ~isVisible(s) THEN showMenubar(s) ELSE s
        b == IF a.thrown THEN a ELSE IF isOpen(a) THEN cleanupCustomMenu(a) ELSE a
    IN  IF b.thrown THEN b
        ELSE IF isFocused(b)
             THEN IF b.focusedMenu.present /\ ~HasButton(b, b.focusedMenu.index)
                  THEN Throw(b)
                  ELSE [b EXCEPT !.focusedMenu = NoMenu, !.focusToReturn = FALSE]
             ELSE b

\* case MenubarState.FOCUSED of the focusState setter
EnterFocused(s) ==
    LET a == IF ~isVisible(s) THEN showMenubar(s) ELSE s
        b == IF a.thrown THEN a ELSE IF isOpen(a) THEN cleanupCustomMenu(a) ELSE a
    IN  IF b.thrown THEN b
        ELSE IF b.focusedMenu.present /\ ~HasButton(b, b.focusedMenu.index)
             THEN Throw(b)
             ELSE b

\* case MenubarState.OPEN of the focusState setter
EnterOpen(s) ==
    LET a == IF ~isVisible(s) THEN showMenubar(s) ELSE s
    IN  IF a.thrown THEN a
        ELSE IF a.focusedMenu.present THEN showCustomMenu(a, a.focusedMenu.index)
             ELSE a

\* the switch of the focusState setter
EntryActions(s, value) ==
    CASE value = HIDDEN  -> EnterHidden(s)
      [] value = VISIBLE -> EnterVisible(s)
      [] value = FOCUSED -> EnterFocused(s)
      [] value = OPEN    -> EnterOpen(s)

\* The head of the setter that clears the flag and forgets to schedule.
ScheduleDeferredForgotten(s, value) ==
    IF s.focusState >= FOCUSED /\ value < FOCUSED /\ s.updatePending
    THEN [s EXCEPT !.updatePending = FALSE]
    ELSE s

\* the head of the focusState setter: losing focus, update the menu if needed
ScheduleDeferred(s, value) ==
    IF s.focusState >= FOCUSED /\ value < FOCUSED /\ s.updatePending
    THEN [s EXCEPT !.menuUpdater = TRUE, !.updatePending = FALSE]
    ELSE s

\* The setter without its early return: the entry actions run again.
SetFocusStateAlways(s, value) ==
    LET d == ScheduleDeferred(s, value)
        e == EntryActions(d, value)
    IN  IF e.thrown THEN e ELSE [e EXCEPT !.focusState = value]

\* set focusState(value)
SetFocusState(s, value) ==
    LET d == ScheduleDeferred(s, value)
    IN  IF value = d.focusState THEN d
        ELSE LET e == EntryActions(d, value)
             IN  IF e.thrown THEN e ELSE [e EXCEPT !.focusState = value]

\* the state setUnfocusedState() goes to
RestingState == IF menuBarVisibility = "toggle" THEN HIDDEN ELSE VISIBLE

\* setUnfocusedState() that hides the bar in every visibility mode.
setUnfocusedStateHidden(s) == SetFocusState(s, HIDDEN)

\* setUnfocusedState()
setUnfocusedState(s) == SetFocusState(s, RestingState)

\* The move that opens the next dropdown without disposing the open one.
FocusIndexLeaking(s, newFocusedIndex) ==
    IF newFocusedIndex = s.focusedMenu.index THEN s
    ELSE IF isOpen(s)
         THEN showCustomMenu(s, newFocusedIndex)
         ELSE IF isFocused(s)
              THEN [s EXCEPT !.focusedMenu.index = newFocusedIndex]
              ELSE s

\* focusNext() and focusPrevious(), from the index they compute
FocusIndex(s, newFocusedIndex) ==
    IF newFocusedIndex = s.focusedMenu.index THEN s
    ELSE IF isOpen(s)
         THEN showCustomMenu(cleanupCustomMenu(s), newFocusedIndex)
         ELSE IF isFocused(s)
              THEN [s EXCEPT !.focusedMenu.index = newFocusedIndex]
              ELSE s

focusPrevious(s) ==
    IF ~s.focusedMenu.present THEN s
    ELSE IF ~s.customMenus.defined THEN Throw(s)
    ELSE FocusIndex(s, (s.focusedMenu.index - 1 + NumButtons(s)) % NumButtons(s))

\* focusNext() that stops at the last button instead of wrapping around.
focusNextClamped(s) ==
    IF ~s.focusedMenu.present THEN s
    ELSE IF ~s.customMenus.defined THEN Throw(s)
    ELSE FocusIndex(s, IF s.focusedMenu.index + 1 < NumButtons(s)
                       THEN s.focusedMenu.index + 1
                       ELSE s.focusedMenu.index)

focusNext(s) ==
    IF ~s.focusedMenu.present THEN s
    ELSE IF ~s.customMenus.defined THEN Throw(s)
    ELSE FocusIndex(s, (s.focusedMenu.index + 1) % NumButtons(s))

\* ------------------------------------------------------------- the rebuild
\* updateActions(menu, target) for every button: each action list is emptied
\* and refilled from the registry's current content
BuiltMenus == [defined |-> TRUE, actions |-> [i \in 1..numMenus |-> menuVersion]]

\* setupCustomMenubar() that returns while the menu is in use without noting
\* that an update is pending.
setupCustomMenubarForgetful(s) ==
    IF isFocused(s) THEN s
    ELSE IF s.container = "undefined" THEN Throw(s)
    ELSE [s EXCEPT !.customMenus = BuiltMenus,
                   !.widgetActions.list = IF @ = "shared" THEN "detached" ELSE @]

\* setupCustomMenubar(): every button gets a new array (actions = []), which
\* updateActions fills; an array a dropdown was built from is left as it is
setupCustomMenubar(s) ==
    IF isFocused(s) THEN [s EXCEPT !.updatePending = TRUE]
    ELSE IF s.container = "undefined" THEN Throw(s)
    ELSE [s EXCEPT !.customMenus = BuiltMenus,
                   !.widgetActions.list = IF @ = "shared" THEN "detached" ELSE @]

\* doSetupMenubar(), where the title bar is custom and the platform is not macOS
doSetupMenubar(s) == setupCustomMenubar(s)

\* RunOnceScheduler.schedule(): cancel the pending timeout, if any, and set a new one
Schedule(s) == [s EXCEPT !.menuUpdater = TRUE]

\* setupMenubar() that rebuilds at once instead of scheduling.
setupMenubarSynchronous(s) == doSetupMenubar(s)

\* setupMenubar()
setupMenubar(s) == Schedule(s)

\* RunOnceScheduler.onTimeout(): the timeout is gone, then the runner runs
RunScheduled(s) == doSetupMenubar([s EXCEPT !.menuUpdater = FALSE])

\* the listener of menu.onDidChange registered for button menuIndex:
\* updateActions empties (target.splice(0)) and refills the array that is the
\* button's action list, which is the array an open dropdown of that button
\* was built from unless a rebuild has replaced it since
onMenuDidChange(s, menuIndex) ==
    IF ~HasButton(s, menuIndex) THEN Throw(s)
    ELSE [s EXCEPT !.customMenus.actions[menuIndex + 1] = menuVersion,
                   !.widgetActions.list =
                       IF @ = "shared" /\ s.widgetActions.button = menuIndex
                       THEN "edited" ELSE @]

\* ------------------------------------------------------ ModifierKeyEmitter
\* what a keydown, keyup or blur event carries
KeyEvents == [altKey : BOOLEAN, ctrlKey : BOOLEAN, shiftKey : BOOLEAN]

\* the events of a keyboard whose ctrl and shift keys are never used
AltEvents == {e \in KeyEvents : ~e.ctrlKey /\ ~e.shiftKey}

\* the constructor's _keyStatus
InitialKeyStatus ==
    [altKey |-> FALSE, ctrlKey |-> FALSE, shiftKey |-> FALSE,
     lastKeyPressed |-> "none", lastKeyReleased |-> "none"]

\* the keydown listener's _keyStatus
KeyDownStatus(ks, e) ==
    [altKey |-> e.altKey, ctrlKey |-> e.ctrlKey, shiftKey |-> e.shiftKey,
     lastKeyPressed |->
        IF e.altKey /\ ~ks.altKey THEN "alt"
        ELSE IF e.ctrlKey /\ ~ks.ctrlKey THEN "ctrl"
        ELSE IF e.shiftKey /\ ~ks.shiftKey THEN "shift"
        ELSE "none",
     lastKeyReleased |-> ks.lastKeyReleased]

\* the keyup listener's _keyStatus
KeyUpStatus(ks, e) ==
    [altKey |-> e.altKey, ctrlKey |-> e.ctrlKey, shiftKey |-> e.shiftKey,
     lastKeyPressed |-> ks.lastKeyPressed,
     lastKeyReleased |->
        IF ~e.altKey /\ ks.altKey THEN "alt"
        ELSE IF ~e.ctrlKey /\ ks.ctrlKey THEN "ctrl"
        ELSE IF ~e.shiftKey /\ ks.shiftKey THEN "shift"
        ELSE "none"]

\* the window blur listener's _keyStatus: shiftKey is cleared twice, ctrlKey never
BlurStatus(ks) ==
    [altKey |-> FALSE, ctrlKey |-> ks.ctrlKey, shiftKey |-> FALSE,
     lastKeyPressed |-> "none", lastKeyReleased |-> "none"]

\* --------------------------------------------------------------- handlers
\* onModifierKeyToggled(modifierKeyStatus)
onModifierKeyToggled(s, ks) ==
    LET altKeyAlone == ks.lastKeyPressed = "alt" /\ ~ks.ctrlKey /\ ~ks.shiftKey
        allModifiersReleased == ~ks.altKey /\ ~ks.ctrlKey /\ ~ks.shiftKey
        s0 == [s EXCEPT !.modifierKeyStatus = TRUE]
        s1 == IF menuBarVisibility = "toggle"
              THEN IF altKeyAlone
                   THEN IF ~isVisible(s0) THEN SetFocusState(s0, VISIBLE) ELSE s0
                   ELSE IF ~allModifiersReleased /\ ~isFocused(s0)
                        THEN SetFocusState(s0, HIDDEN)
                        ELSE s0
              ELSE s0
    IN  IF s1.thrown THEN s1
        ELSE IF allModifiersReleased /\ ks.lastKeyPressed = "alt"
                /\ ks.lastKeyReleased = "alt"
             THEN IF ~isFocused(s1)
                  THEN SetFocusState([s1 EXCEPT !.focusedMenu = MenuAt(0)], FOCUSED)
                  ELSE IF ~isOpen(s1) THEN setUnfocusedState(s1) ELSE s1
             ELSE s1

\* the part between two handlers: nothing is running
Returned(s) == [s EXCEPT !.thrown = FALSE, !.fired = 0]

\* the keydown listener of the emitter: it fires if a modifier went down
onKeyDown(s, ks, e) ==
    IF KeyDownStatus(ks, e).lastKeyPressed # "none"
    THEN onModifierKeyToggled(s, KeyDownStatus(ks, e))
    ELSE s

\* the keyup listener of the emitter: it fires if a modifier went up
onKeyUp(s, ks, e) ==
    IF KeyUpStatus(ks, e).lastKeyReleased # "none"
    THEN onModifierKeyToggled(s, KeyUpStatus(ks, e))
    ELSE s

\* the window blur listener of the emitter: it always fires
onWindowBlur(s, ks) == onModifierKeyToggled(s, BlurStatus(ks))

\* onDidChangeWindowFocus(hasFocus)
onDidChangeWindowFocus(s, hasFocus) ==
    IF s.container # "undefined" /\ ~hasFocus THEN setUnfocusedState(s) ELSE s

\* the keys the button's KEY_UP listener tells apart
ButtonKeys == {"DownArrow", "Enter", "Other"}

\* the KEY_UP listener of button menuIndex
onButtonKeyUp(s, menuIndex, key) ==
    IF key \in {"DownArrow", "Enter"} /\ ~isOpen(s)
    THEN SetFocusState([s EXCEPT !.focusedMenu = MenuAt(menuIndex)], OPEN)
    ELSE s

\* the CLICK listener of the window: it takes the click as one outside the bar
onWindowClick(s) == IF isFocused(s) THEN setUnfocusedState(s) ELSE s

\* a click on button menuIndex: the CLICK listener of the button; it stops the
\* propagation of the click it handles, while the click it ignores (shift or
\* ctrl held) bubbles to the CLICK listener of the window
onButtonClick(s, menuIndex, ks) ==
    IF s.modifierKeyStatus /\ (ks.shiftKey \/ ks.ctrlKey) THEN onWindowClick(s)
    ELSE IF isOpen(s)
         THEN IF isCurrentMenu(s, menuIndex) THEN setUnfocusedState(s)
              ELSE showCustomMenu(cleanupCustomMenu(s), menuIndex)
         ELSE SetFocusState([s EXCEPT !.focusedMenu = MenuAt(menuIndex)], OPEN)

\* The listener moving the focused menu whether or not the bar is focused.
onButtonMouseEnterUnguarded(s, menuIndex) ==
    IF isOpen(s) /\ ~isCurrentMenu(s, menuIndex)
    THEN showCustomMenu(cleanupCustomMenu(s), menuIndex)
    ELSE IF ~isOpen(s)
         THEN [s EXCEPT !.focusedMenu = MenuAt(menuIndex)]
         ELSE s

\* the MOUSE_ENTER listener of button menuIndex
onButtonMouseEnter(s, menuIndex) ==
    IF isOpen(s) /\ ~isCurrentMenu(s, menuIndex)
    THEN showCustomMenu(cleanupCustomMenu(s), menuIndex)
    ELSE IF isFocused(s) /\ ~isOpen(s)
         THEN [s EXCEPT !.focusedMenu = MenuAt(menuIndex)]
         ELSE s

\* the keys the container's KEY_DOWN listener tells apart
ContainerKeys == {"LeftArrow", "ShiftTab", "RightArrow", "Tab", "Escape", "Other"}

\* The listener with Tab left to the browser: only the arrows move the focus.
onContainerKeyDownArrowsOnly(s, key) ==
    IF key = "LeftArrow" THEN focusPrevious(s)
    ELSE IF key = "RightArrow" THEN focusNext(s)
    ELSE IF key = "Escape" /\ isFocused(s) /\ ~isOpen(s) THEN setUnfocusedState(s)
    ELSE s

\* the KEY_DOWN listener of the container
onContainerKeyDown(s, key) ==
    IF key \in {"LeftArrow", "ShiftTab"} THEN focusPrevious(s)
    ELSE IF key \in {"RightArrow", "Tab"} THEN focusNext(s)
    ELSE IF key = "Escape" /\ isFocused(s) /\ ~isOpen(s) THEN setUnfocusedState(s)
    ELSE s

\* the FOCUS_IN listener of the container, the focus coming from outside it
onFocusIn(s) == [s EXCEPT !.focusToReturn = TRUE]

\* the FOCUS_OUT listener of the container, the focus going outside it
onFocusOut(s) == setUnfocusedState([s EXCEPT !.focusToReturn = FALSE])

\* The listener dropping the focus altogether instead of going back to FOCUSED.
onDidCancelUnfocused(s) == setUnfocusedState(s)

\* the onDidCancel listener of the dropdown
onDidCancel(s) == SetFocusState(s, FOCUSED)

\* the callback of the timer the dropdown's onDidBlur listener sets
onBlurTimeout(s) == cleanupCustomMenu(s)

\* the onDidBeforeRun listener of the action runner
onDidBeforeRun(s) == setUnfocusedState(s)

\* layout(dimension)
layout(s) == IF menuBarVisibility = "toggle" THEN hideMenubar(s) ELSE showMenubar(s)

\* createContentArea(parent)
createContentArea(s, isWindows) ==
    LET c == [s EXCEPT !.container = "visible"]
    IN  IF ~isWindows THEN c ELSE doSetupMenubar(c)

\* ---------------------------------------------------- the action lists
MAX_MENU_RECENT_ENTRIES == 5

\* this.recentlyOpened before getRecentlyOpened() has resolved
NotLoaded == [loaded |-> FALSE, workspaces |-> 0, files |-> 0]

\* the ids of the actions of the registry that updateActions tells apart: the
\* 'open recent' action, an action that denotes a submenu, any other action
ActionIds == {"openRecent", "submenu", "plain"}

\* an entry of an action list
Entry(id, n, actions) == [id |-> id, n |-> n, actions |-> actions]

\* new Separator()
Separator == Entry("separator", 0, << >>)

\* the loop of getOpenRecentActions that does not stop at
\* MAX_MENU_RECENT_ENTRIES.
RecentEntriesUncapped(commandId, length) ==
    [i \in 1..length |-> Entry(commandId, i, << >>)]

\* the loop of getOpenRecentActions over one list: an entry for each of its
\* first MAX_MENU_RECENT_ENTRIES elements
RecentEntries(commandId, length) ==
    [i \in 1..(IF length < MAX_MENU_RECENT_ENTRIES THEN length
               ELSE MAX_MENU_RECENT_ENTRIES) |-> Entry(commandId, i, << >>)]

\* getOpenRecentActions()
getOpenRecentActions(r) ==
    IF ~r.loaded THEN << >>
    ELSE (IF r.workspaces > 0
          THEN RecentEntries("openRecentWorkspace", r.workspaces) \o <<Separator>>
          ELSE << >>)
         \o (IF r.files > 0
             THEN RecentEntries("openRecentFile", r.files) \o <<Separator>>
             ELSE << >>)

\* insertActionsBefore(nextAction, target)
insertActionsBefore(nextAction, target, r) ==
    IF nextAction = "openRecent" THEN target \o getOpenRecentActions(r) ELSE target

\* the groups of the menu a submenu action denotes
SubmenuGroups == << <<"openRecent">>, <<"plain">> >>

\* updateActions, the loop over the actions of one group; submenus tells
\* whether the submenu actions of this menu are built
RECURSIVE PushActions(_, _, _, _)
RECURSIVE PushGroups(_, _, _, _)
PushActions(target, actions, r, submenus) ==
    IF actions = << >> THEN target
    ELSE LET action == Head(actions)
             before == insertActionsBefore(action, target, r)
             entry == IF action = "submenu" /\ submenus
                      THEN LET filled == PushGroups(<< >>, SubmenuGroups, r, FALSE)
                           IN  Entry("submenu", 0, SubSeq(filled, 1, Len(filled) - 1))
                      ELSE Entry(action, 0, << >>)
         IN  PushActions(Append(before, entry), Tail(actions), r, submenus)

\* updateActions, the loop over the groups: a separator after each group
PushGroups(target, groups, r, submenus) ==
    IF groups = << >> THEN target
    ELSE PushGroups(Append(PushActions(target, Head(groups), r, submenus), Separator),
                    Tail(groups), r, submenus)

\* updateActions(menu, target) that forgets target.pop().
updateActionsNoPop(groups, r) == PushGroups(<< >>, groups, r, TRUE)

\* updateActions(menu, target): target.splice(0), the loops, target.pop()
updateActions(groups, r) ==
    LET filled == PushGroups(<< >>, groups, r, TRUE)
    IN  SubSeq(filled, 1, Len(filled) - 1)

\* ------------------------------------------------------ titles and labels
\* A title or label is the sequence of its characters.  In the rendered title
\* the tags <mnemonic> and </mnemonic> are one element each.

\* a configuration value read as a boolean: anything but a boolean counts as true
BooleanSetting(value) == IF value \in {"true", "false"} THEN value = "true" ELSE TRUE

\* get currentEnableMenuBarMnemonics()
currentEnableMenuBarMnemonics == BooleanSetting(mnemonics)

\* get currentStatusBarVisibility()
currentStatusBarVisibility == BooleanSetting(settings.statusBarVisible)

\* get currentActivityBarVisibility()
currentActivityBarVisibility == BooleanSetting(settings.activityBarVisible)

\* the regular expression /&&(.)/ matches at position i of the label: two
\* ampersands and one more character, which is not a line terminator
MatchesAt(label, i) ==
    /\ i + 2 <= Len(label)
    /\ label[i] = "&" /\ label[i + 1] = "&"
    /\ label[i + 2] # "\n"

\* what one match is replaced by: '$1' is the character the match captured
Replacement(replacement, captured) ==
    IF replacement = "<mnemonic>$1</mnemonic>"
    THEN <<"<mnemonic>", captured, "</mnemonic>">>
    ELSE <<captured>>

\* label.replace(/&&(.)/g, replacement), from position i on: the matches are
\* taken from left to right and do not overlap
RECURSIVE ReplaceFrom(_, _, _)
ReplaceFrom(label, i, replacement) ==
    IF i > Len(label) THEN << >>
    ELSE IF MatchesAt(label, i)
         THEN Replacement(replacement, label[i + 2])
                  \o ReplaceFrom(label, i + 3, replacement)
         ELSE <<label[i]>> \o ReplaceFrom(label, i + 1, replacement)

\* label.replace(/&&(.)/g, replacement)
ReplaceMnemonics(label, replacement) == ReplaceFrom(label, 1, replacement)

\* the labels that depend on a setting, each shortened to its initials with the
\* mnemonic marker where the localized string has it
MoveSideBarRight == <<"&", "&", "M", "R">>
MoveSideBarLeft == <<"&", "&", "M", "L">>
HideStatusBar == <<"&", "&", "H", "S">>
ShowStatusBar == <<"&", "&", "S", "S">>
HideActivityBar == <<"H", "&", "&", "A">>
ShowActivityBar == <<"S", "&", "&", "A">>
MultiCursorAlt == <<"A">>
MultiCursorCtrl == <<"C">>

\* the switch of calculateActionLabel: the label before the mnemonics are handled
DynamicLabel(action) ==
    CASE action.id = "toggleMultiCursorModifier" ->
             IF settings.multiCursorModifier = "ctrlCmd"
             THEN MultiCursorAlt ELSE MultiCursorCtrl
      [] action.id = "toggleSidebarPosition" ->
             IF settings.sideBarLocation # "right"
             THEN MoveSideBarRight ELSE MoveSideBarLeft
      [] action.id = "toggleStatusbarVisibility" ->
             IF currentStatusBarVisibility THEN HideStatusBar ELSE ShowStatusBar
      [] action.id = "toggleActivityBarVisibility" ->
             IF currentActivityBarVisibility THEN HideActivityBar ELSE ShowActivityBar
      [] OTHER -> action.label

\* calculateActionLabel with the marker never stripped
calculateActionLabelKept(action) == DynamicLabel(action)

\* calculateActionLabel(action)
calculateActionLabel(action) ==
    IF currentEnableMenuBarMnemonics
    THEN DynamicLabel(action)
    ELSE ReplaceMnemonics(DynamicLabel(action), "$1")

\* menu.getActions(), for the one action looked at: the registry hands out the
\* raw action, its label the label it was contributed with
getActions == menuAction

\* mnemonic.toLocaleLowerCase(), on the characters of Alphabet
toLocaleLowerCase(c) == IF c = "B" THEN "b" ELSE c

\* the first match of /&&(.)/g in the title, as (/&&(.)/g).exec(title) finds it
FirstMatch(title) ==
    IF \E i \in 1..Len(title) : MatchesAt(title, i)
    THEN CHOOSE i \in 1..Len(title) :
             MatchesAt(title, i) /\ \A j \in 1..(i - 1) : ~MatchesAt(title, j)
    ELSE 0

\* clearMnemonic, then registerMnemonic when the mnemonics are enabled and the
\* title has one
RegisteredMnemonic(title) ==
    IF currentEnableMenuBarMnemonics /\ FirstMatch(title) # 0
    THEN toLocaleLowerCase(title[FirstMatch(title) + 2])
    ELSE "null"

\* let displayTitle = this.topLevelTitles[menuTitle].replace(...)
displayTitle(title) ==
    ReplaceMnemonics(title, IF currentEnableMenuBarMnemonics
                            THEN "<mnemonic>$1</mnemonic>" ELSE "$1")

\* the values of 'window.enableMenuBarMnemonics'
MnemonicsValues == {"true", "false", "unset"}

\* the settings a fresh profile has
DefaultSettings ==
    [multiCursorModifier |-> "alt", sideBarLocation |-> "left",
     statusBarVisible |-> "unset", activityBarVisible |-> "unset"]

\* the title "&&File", shortened, and an action with a mnemonic of its own
FileTitle == <<"&", "&", "a">>
PlainAction == [id |-> "plain", label |-> <<"a", "&", "&", "B">>]

\* nothing is rendered yet
NothingShown ==
    /\ titleElement = << >>
    /\ accessKey = "null"
    /\ actionLabel = << >>
    /\ shown = << >>

\* one button and one action, nothing rendered, the settings of a fresh profile
InitLabels ==
    /\ mnemonics = "unset"
    /\ settings = DefaultSettings
    /\ topLevelTitle = FileTitle
    /\ menuAction = PlainAction
    /\ NothingShown

\* ----------------------------------------------------------------- actions
partVars == <<container, customMenus, focusState, focusedMenu, focusToReturn,
              updatePending, menuUpdater, lastVisibility, liveWidgets,
              widgetActions, modifierKeyStatus>>

\* the state after new MenubarPart(...)
InitPart ==
    /\ menuBarVisibility \in MenuBarVisibility
    /\ menuVersion = 0
    /\ container = "undefined"
    /\ customMenus = NoMenus
    /\ focusState = HIDDEN
    /\ focusedMenu = NoMenu
    /\ focusToReturn = FALSE
    /\ updatePending = FALSE
    /\ menuUpdater = FALSE
    /\ lastVisibility = "none"
    /\ liveWidgets = 0
    /\ widgetActions = NoActionsHeld
    /\ blurTimers = 0
    /\ modifierKeyStatus = FALSE
    /\ keyStatus = InitialKeyStatus

\* the recently opened list is not loaded, the one menu looked at is empty
InitLists ==
    /\ recentlyOpened = NotLoaded
    /\ menuGroups = << >>
    /\ menuActions = << >>

InitBuild == InitLists /\ InitLabels

Init == numMenus \in 1..MaxMenus /\ InitPart /\ InitBuild

InitMenus == numMenus \in 1..MaxRebuildMenus /\ InitPart /\ InitBuild

InitNav == numMenus \in 1..MaxNavMenus /\ InitPart /\ InitBuild

\* The host creates the content area right after it constructed the part:
\* no event reaches the part before.
Created == container # "undefined"

\* The buttons can be clicked, hovered and focused: the container is not hidden.
Interactive == customMenus.defined /\ container = "visible"

\* Part.create(): the host creates the content area, once
CreateContentArea ==
    /\ container = "undefined"
    /\ \E isWindows \in BOOLEAN : Commit(createContentArea(Cur, isWindows))
    /\ UNCHANGED buildVars
    /\ UNCHANGED <<numMenus, menuBarVisibility, menuVersion, blurTimers, keyStatus>>

\* the host lays the part out
Layout ==
    /\ Created
    /\ Commit(layout(Cur))
    /\ UNCHANGED buildVars
    /\ UNCHANGED <<numMenus, menuBarVisibility, menuVersion, blurTimers, keyStatus>>

\* a keydown event on document.body
KeyDown(e) ==
    /\ Created
    /\ keyStatus' = KeyDownStatus(keyStatus, e)
    /\ Commit(onKeyDown(Cur, keyStatus, e))
    /\ UNCHANGED buildVars
    /\ UNCHANGED <<numMenus, menuBarVisibility, menuVersion, blurTimers>>

\* a keyup event on document.body
KeyUp(e) ==
    /\ Created
    /\ keyStatus' = KeyUpStatus(keyStatus, e)
    /\ Commit(onKeyUp(Cur, keyStatus, e))
    /\ UNCHANGED buildVars
    /\ UNCHANGED <<numMenus, menuBarVisibility, menuVersion, blurTimers>>

\* a blur event on the window: the emitter always fires
WindowBlur ==
    /\ Created
    /\ keyStatus' = BlurStatus(keyStatus)
    /\ Commit(onWindowBlur(Cur, keyStatus))
    /\ UNCHANGED buildVars
    /\ UNCHANGED <<numMenus, menuBarVisibility, menuVersion, blurTimers>>

\* windowService.onDidChangeFocus
DidChangeWindowFocus ==
    /\ Created
    /\ \E hasFocus \in BOOLEAN : Commit(onDidChangeWindowFocus(Cur, hasFocus))
    /\ UNCHANGED buildVars
    /\ UNCHANGED <<numMenus, menuBarVisibility, menuVersion, blurTimers, keyStatus>>

\* configurationService.onDidChangeConfiguration: onConfigurationUpdated(event)
ConfigurationUpdated ==
    /\ Created
    /\ \E value \in MenuBarVisibility, affectsKeys \in BOOLEAN :
          /\ value # menuBarVisibility => affectsKeys
          /\ menuBarVisibility' = value
          /\ IF affectsKeys THEN Commit(setupMenubar(Cur)) ELSE UNCHANGED partVars
    /\ UNCHANGED buildVars
    /\ UNCHANGED <<numMenus, menuVersion, blurTimers, keyStatus>>

\* onDidChangeContext, onDidUpdateKeybindings, and the resolved promise of
\* onRecentlyOpenedChange: each calls setupMenubar()
ChangeNotified ==
    /\ Created
    /\ Commit(setupMenubar(Cur))
    /\ UNCHANGED buildVars
    /\ UNCHANGED <<numMenus, menuBarVisibility, menuVersion, blurTimers, keyStatus>>

\* the zero-delay timeout of menuUpdater
MenuUpdaterRun ==
    /\ menuUpdater
    /\ Commit(RunScheduled(Cur))
    /\ UNCHANGED buildVars
    /\ UNCHANGED <<numMenus, menuBarVisibility, menuVersion, blurTimers, keyStatus>>

\* menu.onDidChange of a top-level menu, listened to since the first setup
MenuDidChange ==
    /\ customMenus.defined
    /\ \E i \in 0..(numMenus - 1) : Commit(onMenuDidChange(Cur, i))
    /\ UNCHANGED buildVars
    /\ UNCHANGED <<numMenus, menuBarVisibility, menuVersion, blurTimers, keyStatus>>

\* a contribution is added to or removed from the menu registry
RegistryEdit ==
    /\ menuVersion < MaxVersion
    /\ menuVersion' = menuVersion + 1
    /\ UNCHANGED buildVars
    /\ UNCHANGED <<numMenus, menuBarVisibility, blurTimers, keyStatus>>
    /\ UNCHANGED partVars

\* KEY_UP on a button
ButtonKeyUp ==
    /\ Interactive
    /\ \E i \in 0..(numMenus - 1), key \in ButtonKeys : Commit(onButtonKeyUp(Cur, i, key))
    /\ UNCHANGED buildVars
    /\ UNCHANGED <<numMenus, menuBarVisibility, menuVersion, blurTimers, keyStatus>>

\* CLICK on a button
ButtonClick ==
    /\ Interactive
    /\ \E i \in 0..(numMenus - 1) : Commit(onButtonClick(Cur, i, keyStatus))
    /\ UNCHANGED buildVars
    /\ UNCHANGED <<numMenus, menuBarVisibility, menuVersion, blurTimers, keyStatus>>

\* MOUSE_ENTER on a button
ButtonMouseEnter ==
    /\ Interactive
    /\ \E i \in 0..(numMenus - 1) : Commit(onButtonMouseEnter(Cur, i))
    /\ UNCHANGED buildVars
    /\ UNCHANGED <<numMenus, menuBarVisibility, menuVersion, blurTimers, keyStatus>>

\* KEY_DOWN on the container
ContainerKeyDown ==
    /\ Interactive
    /\ \E key \in ContainerKeys : Commit(onContainerKeyDown(Cur, key))
    /\ UNCHANGED buildVars
    /\ UNCHANGED <<numMenus, menuBarVisibility, menuVersion, blurTimers, keyStatus>>

\* CLICK on the window, outside the buttons
WindowClick ==
    /\ customMenus.defined
    /\ Commit(onWindowClick(Cur))
    /\ UNCHANGED buildVars
    /\ UNCHANGED <<numMenus, menuBarVisibility, menuVersion, blurTimers, keyStatus>>

\* FOCUS_IN on the container from an element outside it
FocusIn ==
    /\ Interactive
    /\ Commit(onFocusIn(Cur))
    /\ UNCHANGED buildVars
    /\ UNCHANGED <<numMenus, menuBarVisibility, menuVersion, blurTimers, keyStatus>>

\* FOCUS_OUT on the container to an element outside it
FocusOut ==
    /\ Interactive
    /\ Commit(onFocusOut(Cur))
    /\ UNCHANGED buildVars
    /\ UNCHANGED <<numMenus, menuBarVisibility, menuVersion, blurTimers, keyStatus>>

\* the open dropdown is cancelled (Escape inside it)
DropdownCancel ==
    /\ focusedMenu.widget
    /\ Commit(onDidCancel(Cur))
    /\ UNCHANGED buildVars
    /\ UNCHANGED <<numMenus, menuBarVisibility, menuVersion, blurTimers, keyStatus>>

\* the open dropdown loses focus: its onDidBlur listener starts the grace timer
DropdownBlur ==
    /\ focusedMenu.widget
    /\ blurTimers < MaxTimers
    /\ blurTimers' = blurTimers + 1
    /\ UNCHANGED buildVars
    /\ UNCHANGED <<numMenus, menuBarVisibility, menuVersion, keyStatus>>
    /\ UNCHANGED partVars

\* a grace timer fires, 100 ms after the blur
BlurTimeout ==
    /\ blurTimers > 0
    /\ blurTimers' = blurTimers - 1
    /\ Commit(onBlurTimeout(Cur))
    /\ UNCHANGED buildVars
    /\ UNCHANGED <<numMenus, menuBarVisibility, menuVersion, keyStatus>>

\* an action of the open dropdown is about to run
ActionRun ==
    /\ focusedMenu.widget
    /\ Commit(onDidBeforeRun(Cur))
    /\ UNCHANGED buildVars
    /\ UNCHANGED <<numMenus, menuBarVisibility, menuVersion, blurTimers, keyStatus>>

\* every handler but the keyboard's
PartStep ==
    \/ CreateContentArea
    \/ Layout
    \/ WindowBlur
    \/ DidChangeWindowFocus
    \/ ConfigurationUpdated
    \/ ChangeNotified
    \/ MenuUpdaterRun
    \/ MenuDidChange
    \/ ButtonKeyUp
    \/ ButtonClick
    \/ ButtonMouseEnter
    \/ ContainerKeyDown
    \/ WindowClick
    \/ FocusIn
    \/ FocusOut
    \/ DropdownCancel
    \/ DropdownBlur
    \/ BlurTimeout
    \/ ActionRun

\* the full keyboard, a registry whose content does not change
Next ==
    \/ \E e \in KeyEvents : KeyDown(e)
    \/ \E e \in KeyEvents : KeyUp(e)
    \/ PartStep

Spec == Init /\ [][Next]_vars

\* a keyboard whose ctrl and shift keys are never used, up to MaxNavMenus menus
NextNav ==
    \/ \E e \in AltEvents : KeyDown(e)
    \/ \E e \in AltEvents : KeyUp(e)
    \/ PartStep

SpecNav == InitNav /\ [][NextNav]_vars

\* the same keyboard, and a registry whose content changes
NextMenus ==
    \/ \E e \in AltEvents : KeyDown(e)
    \/ \E e \in AltEvents : KeyUp(e)
    \/ PartStep
    \/ RegistryEdit

SpecMenus == InitMenus /\ [][NextMenus]_vars

\* the same, the zero-delay timeout of the scheduler firing once it is set
SpecMenusFair == SpecMenus /\ WF_vars(MenuUpdaterRun)

\* the sequences over S of length at most n
SeqsUpTo(S, n) == UNION {[1..k -> S] : k \in 0..n}

\* the menus of the registry: up to MaxGroups groups of up to MaxGroupLen actions
Menus == SeqsUpTo(SeqsUpTo(ActionIds, MaxGroupLen), MaxGroups)

\* the recently opened lists, by the numbers of their workspaces and files
RecentLists ==
    {NotLoaded} \cup [loaded : {TRUE}, workspaces : 0..MaxRecent, files : 0..MaxRecent]

\* the recently opened lists with no or MaxRecent workspaces and files
CoarseRecentLists ==
    {r \in RecentLists : r.workspaces \in {0, MaxRecent} /\ r.files \in {0, MaxRecent}}

\* the menu whose one action is the 'open recent' action
OpenRecentMenu == << <<"openRecent">> >>

\* any menu of the registry with a recently opened list of CoarseRecentLists,
\* or the menu OpenRecentMenu with any recently opened list; nothing is built
InitInputs ==
    /\ \/ menuGroups \in Menus /\ recentlyOpened \in CoarseRecentLists
       \/ menuGroups = OpenRecentMenu /\ recentlyOpened \in RecentLists
    /\ menuActions = << >>

\* updateActions(menu, this.customMenus[menuIndex].actions)
UpdateActions ==
    /\ menuActions' = updateActions(menuGroups, recentlyOpened)
    /\ UNCHANGED <<recentlyOpened, menuGroups, labelVars>>
    /\ UNCHANGED <<numMenus, menuBarVisibility, menuVersion, blurTimers, keyStatus>>
    /\ UNCHANGED partVars

\* the building of one menu's action list, the part being as constructed
NextBuild == UpdateActions

\* one menu bar as constructed, with the inputs of updateActions
InitUpdate == numMenus = 1 /\ InitPart /\ InitInputs /\ InitLabels

SpecBuild == InitUpdate /\ [][NextBuild]_vars

\* the characters of the titles and labels drawn: the ampersand of the marker,
\* a lower-case and an upper-case letter, and a line terminator
Alphabet == {"&", "a", "B", "\n"}

\* the titles and labels of at most MaxLabelLen characters
Labels == SeqsUpTo(Alphabet, MaxLabelLen)

\* the ids calculateActionLabel has a label of its own for
DynamicIds == {"toggleMultiCursorModifier", "toggleSidebarPosition",
               "toggleStatusbarVisibility", "toggleActivityBarVisibility"}

\* the values of the settings the labels of DynamicIds depend on
SettingsValues ==
    [multiCursorModifier : {"ctrlCmd", "alt"}, sideBarLocation : {"left", "right"},
     statusBarVisible : {"true", "false", "unset"},
     activityBarVisible : {"true", "false", "unset"}]

\* any title with the action PlainAction, or the title FileTitle with a plain
\* action of any label, or with an action of DynamicIds under any settings
InitTitles ==
    /\ mnemonics \in MnemonicsValues
    /\ \/ /\ topLevelTitle \in Labels
          /\ menuAction = PlainAction
          /\ settings = DefaultSettings
       \/ /\ topLevelTitle = FileTitle
          /\ menuAction \in [id : {"plain"}, label : Labels]
          /\ settings = DefaultSettings
       \/ /\ topLevelTitle = FileTitle
          /\ menuAction \in [id : DynamicIds, label : {<<"a">>}]
          /\ settings \in SettingsValues
    /\ NothingShown

\* the configuration service reports another value of
\* 'window.enableMenuBarMnemonics'; the rebuild it asks for runs later
MnemonicsConfigured ==
    /\ \E value \in MnemonicsValues \ {mnemonics} : mnemonics' = value
    /\ UNCHANGED <<settings, topLevelTitle, menuAction, titleElement, accessKey,
                   actionLabel, shown>>
    /\ UNCHANGED <<recentlyOpened, menuGroups, menuActions>>
    /\ UNCHANGED <<numMenus, menuBarVisibility, menuVersion, blurTimers, keyStatus>>
    /\ UNCHANGED partVars

\* a rebuild, for one button and one action of its menu: the title is rendered
\* again, the mnemonic registered again, the action's label computed again
SetupLabels ==
    /\ Len(shown) < MaxShown
    /\ titleElement' = displayTitle(topLevelTitle)
    /\ accessKey' = RegisteredMnemonic(topLevelTitle)
    /\ actionLabel' = calculateActionLabel(getActions)
    /\ shown' = Append(shown, [enabled |-> currentEnableMenuBarMnemonics,
                               title |-> displayTitle(topLevelTitle),
                               label |-> calculateActionLabel(getActions)])
    /\ UNCHANGED <<mnemonics, settings, topLevelTitle, menuAction>>
    /\ UNCHANGED <<recentlyOpened, menuGroups, menuActions>>
    /\ UNCHANGED <<numMenus, menuBarVisibility, menuVersion, blurTimers, keyStatus>>
    /\ UNCHANGED partVars

\* the rendering of one title and one label, the part being as constructed
NextLabels ==
    \/ MnemonicsConfigured
    \/ SetupLabels

\* one menu bar as constructed, with the inputs of the titles and labels
InitRender == numMenus = 1 /\ InitPart /\ InitLists /\ InitTitles

SpecLabels == InitRender /\ [][NextLabels]_vars

\* ------------------------------------------------------------------ claims
\* C1: setting the state to the value it already has is a no-op.  In every
\* reachable state, the setter called with the current state returns the part
\* as it was: the state, FocusedMenu, the deferred-rebuild flag, the pending
\* rebuild, the container's visibility and the dropdowns are unchanged, no
\* visibility-change notification fired, and nothing threw.
C1_SameStateIsNoOp == SetFocusState(Cur, focusState) = Cur

\* C1, its case: a dropdown is open and a rebuild is deferred, and the state
\* is set to OPEN again.
C1_Witness ==
    /\ focusState = OPEN
    /\ focusedMenu.widget
    /\ updatePending
    /\ SetFocusState(Cur, OPEN).liveWidgets = 1

\* C2: FocusedMenu is absent, or its index is a position in the button array.
C2_FocusedIndexValid == focusedMenu.present => HasButton(Cur, focusedMenu.index)

\* C3: focus-next and focus-previous are inverse modulo wraparound.  Once the
\* buttons exist (the container listens to keys from then on), with a
\* FocusedMenu in FOCUSED or OPEN state, next then previous and previous then
\* next both end on the index they started from, in the same state; with one
\* button, or with no FocusedMenu, each of the two returns the part unchanged.
C3_NextPreviousInverse ==
    customMenus.defined =>
        /\ (focusedMenu.present /\ isFocused(Cur)) =>
              /\ focusPrevious(focusNext(Cur)).focusedMenu.index = focusedMenu.index
              /\ focusPrevious(focusNext(Cur)).focusState = focusState
              /\ focusNext(focusPrevious(Cur)).focusedMenu.index = focusedMenu.index
              /\ focusNext(focusPrevious(Cur)).focusState = focusState
        /\ (~focusedMenu.present \/ NumButtons(Cur) = 1) =>
              /\ focusNext(Cur) = Cur
              /\ focusPrevious(Cur) = Cur

\* C3, its case: the last of five buttons is open; next wraps to the first,
\* previous comes back to the last.
C3_Witness ==
    /\ numMenus = 5
    /\ focusState = OPEN
    /\ focusedMenu.index = 4
    /\ focusNext(Cur).focusedMenu.index = 0
    /\ focusPrevious(focusNext(Cur)).focusedMenu.index = 4

\* Right-Arrow pressed three times on the container
ThreeRightArrows(s) ==
    onContainerKeyDown(onContainerKeyDown(onContainerKeyDown(s,
        "RightArrow"), "RightArrow"), "RightArrow")

\* C4: with n >= 2 buttons and FocusedMenu at index i, in FOCUSED or OPEN
\* state, Right-Arrow and Tab move the index to (i+1) mod n, Left-Arrow and
\* Shift+Tab to (i-1+n) mod n, and the state stays what it was; from index 2
\* of 5 buttons three Right-Arrow presses end at index 0.
C4_ArrowsMoveFocus ==
    (customMenus.defined /\ numMenus >= 2 /\ focusedMenu.present /\ isFocused(Cur)) =>
        /\ \A key \in {"RightArrow", "Tab"} :
              /\ onContainerKeyDown(Cur, key).focusedMenu.index
                    = (focusedMenu.index + 1) % numMenus
              /\ onContainerKeyDown(Cur, key).focusState = focusState
        /\ \A key \in {"LeftArrow", "ShiftTab"} :
              /\ onContainerKeyDown(Cur, key).focusedMenu.index
                    = (focusedMenu.index - 1 + numMenus) % numMenus
              /\ onContainerKeyDown(Cur, key).focusState = focusState
        /\ (numMenus = 5 /\ focusedMenu.index = 2) =>
              /\ ThreeRightArrows(Cur).focusedMenu.index = 0
              /\ ThreeRightArrows(Cur).focusState = focusState

\* C4, its case: FOCUSED on index 2 of 5 buttons, three Right-Arrow presses.
C4_Witness ==
    /\ numMenus = 5
    /\ focusState = FOCUSED
    /\ focusedMenu.index = 2
    /\ ThreeRightArrows(Cur).focusedMenu = MenuAt(0)

\* a keydown or keyup event with Alt alone, and one with no modifier
AltOnly == [altKey |-> TRUE, ctrlKey |-> FALSE, shiftKey |-> FALSE]

NoModifier == [altKey |-> FALSE, ctrlKey |-> FALSE, shiftKey |-> FALSE]

\* the events in which one of ctrl and shift goes down, or goes up, from the
\* keys held in ks, Alt being up
CtrlShiftDown(ks) ==
    {e \in KeyEvents :
        /\ ~e.altKey
        /\ \/ e.ctrlKey /\ ~ks.ctrlKey /\ e.shiftKey = ks.shiftKey
           \/ e.shiftKey /\ ~ks.shiftKey /\ e.ctrlKey = ks.ctrlKey}

CtrlShiftUp(ks) ==
    {e \in KeyEvents :
        /\ ~e.altKey
        /\ \/ ~e.ctrlKey /\ ks.ctrlKey /\ e.shiftKey = ks.shiftKey
           \/ ~e.shiftKey /\ ks.shiftKey /\ e.ctrlKey = ks.ctrlKey}

\* C5: modifier chord suppression.  In toggle mode with the bar HIDDEN and Alt
\* not held, a ctrl or shift key going down or going up leaves the state
\* HIDDEN; as this is stated of every reachable state, it is stated of the
\* state after every event of a sequence of such events.
C5_ChordKeepsHidden ==
    (Created /\ menuBarVisibility = "toggle" /\ focusState = HIDDEN
        /\ ~keyStatus.altKey) =>
        /\ \A e \in CtrlShiftDown(keyStatus) :
              onKeyDown(Cur, keyStatus, e).focusState = HIDDEN
        /\ \A e \in CtrlShiftUp(keyStatus) :
              onKeyUp(Cur, keyStatus, e).focusState = HIDDEN

\* C5 restricted to a keyboard whose Alt key has not gone down since the
\* window last lost focus: the last modifier pressed is not Alt.
C5_HiddenWithoutAlt ==
    (Created /\ menuBarVisibility = "toggle" /\ focusState = HIDDEN
        /\ ~keyStatus.altKey /\ keyStatus.lastKeyPressed # "alt") =>
        /\ \A e \in CtrlShiftDown(keyStatus) :
              onKeyDown(Cur, keyStatus, e).focusState = HIDDEN
        /\ \A e \in CtrlShiftUp(keyStatus) :
              onKeyUp(Cur, keyStatus, e).focusState = HIDDEN

\* C6: in toggle mode with the bar HIDDEN and no modifier held, Alt going down
\* alone moves the state to VISIBLE, and Alt going up right after moves it to
\* FOCUSED with FocusedMenu at index 0.
C6_AltTapFocusesFirst ==
    (Created /\ menuBarVisibility = "toggle" /\ focusState = HIDDEN
        /\ ~keyStatus.altKey /\ ~keyStatus.ctrlKey /\ ~keyStatus.shiftKey) =>
        LET down == Returned(onKeyDown(Cur, keyStatus, AltOnly))
            up == onKeyUp(down, KeyDownStatus(keyStatus, AltOnly), NoModifier)
        IN  /\ down.focusState = VISIBLE
            /\ up.focusState = FOCUSED
            /\ up.focusedMenu.present
            /\ up.focusedMenu.index = 0

\* C7: when the window loses OS focus while the bar is not HIDDEN, the state
\* becomes the resting state, FocusedMenu becomes absent and no dropdown stays
\* open.
C7_WindowFocusLost ==
    (Created /\ focusState # HIDDEN) =>
        /\ onDidChangeWindowFocus(Cur, FALSE).focusState = RestingState
        /\ ~onDidChangeWindowFocus(Cur, FALSE).focusedMenu.present
        /\ onDidChangeWindowFocus(Cur, FALSE).liveWidgets = 0

\* C8: while the state is FOCUSED or OPEN no button's action list changes,
\* whichever notification asks for the change: a request for a rebuild
\* (configuration, context, keybinding, recently opened), the scheduled
\* rebuild itself, or a change of that button's menu in the registry.
C8_NoChangeWhileFocused ==
    (customMenus.defined /\ isFocused(Cur)) =>
        /\ setupMenubar(Cur).customMenus = customMenus
        /\ RunScheduled(Cur).customMenus = customMenus
        /\ \A i \in 0..(numMenus - 1) :
              onMenuDidChange(Cur, i).customMenus = customMenus

\* C9 as claimed: when the state is set from FOCUSED or OPEN to HIDDEN or
\* VISIBLE while a rebuild was deferred, the rebuild is performed in the
\* transition: when the setter returns, every button's action list is rebuilt
\* from the registry and the deferred flag is cleared.
C9_RebuildPerformedInTransition ==
    (isFocused(Cur) /\ updatePending) =>
        \A value \in {HIDDEN, VISIBLE} :
            /\ SetFocusState(Cur, value).customMenus = BuiltMenus
            /\ ~SetFocusState(Cur, value).updatePending

\* C9 as amended: in that transition the rebuild is scheduled, not performed.
\* The head of the setter, before the entry actions, leaves a timeout of the
\* scheduler pending and clears the deferred flag; when the setter returns the
\* state is the target, the timeout is still pending, the flag is clear and no
\* action list has changed; the rebuild is done when the timeout runs.
C9_DeferredRebuildScheduled ==
    (isFocused(Cur) /\ updatePending) =>
        \A value \in {HIDDEN, VISIBLE} :
            /\ ScheduleDeferred(Cur, value).menuUpdater
            /\ ~ScheduleDeferred(Cur, value).updatePending
            /\ SetFocusState(Cur, value).focusState = value
            /\ SetFocusState(Cur, value).menuUpdater
            /\ ~SetFocusState(Cur, value).updatePending
            /\ SetFocusState(Cur, value).customMenus = customMenus
            /\ RunScheduled(SetFocusState(Cur, value)).customMenus = BuiltMenus
            /\ ~RunScheduled(SetFocusState(Cur, value)).menuUpdater

\* C9, its case: a dropdown is open, the registry has changed since the
\* buttons' action lists were built, the rebuild was deferred and no timeout
\* is pending; the bar goes to its resting state.
C9_Witness ==
    /\ focusState = OPEN
    /\ updatePending
    /\ ~menuUpdater
    /\ customMenus # BuiltMenus
    /\ setUnfocusedState(Cur).menuUpdater
    /\ setUnfocusedState(Cur).customMenus = customMenus

\* C10: rebuild requests are coalesced.  A request changes nothing of the part
\* but the scheduler's pending timeout: no action list is rebuilt inside the
\* notification.  A second request before the timeout has run leaves the part
\* as the first left it, and the one run of the timeout that follows them
\* leaves no timeout pending.
C10_RequestsCoalesced ==
    Created =>
        /\ setupMenubar(Cur) = [Cur EXCEPT !.menuUpdater = TRUE]
        /\ setupMenubar(setupMenubar(Cur)) = setupMenubar(Cur)
        /\ ~RunScheduled(setupMenubar(setupMenubar(Cur))).menuUpdater
        /\ ~isFocused(Cur) =>
              RunScheduled(setupMenubar(setupMenubar(Cur))).customMenus = BuiltMenus

\* C10, its case: a request is pending while the registry has changed since
\* the last rebuild; a second request arrives, and one run rebuilds.
C10_Witness ==
    /\ menuUpdater
    /\ customMenus.defined
    /\ customMenus # BuiltMenus
    /\ ~isFocused(Cur)
    /\ setupMenubar(Cur) = Cur
    /\ RunScheduled(setupMenubar(Cur)).customMenus = BuiltMenus

\* C11: after a window blur the tracker's status has altKey, ctrlKey and
\* shiftKey false and both last-key fields cleared, whatever was held before,
\* and the status is emitted: the part's listener receives it.
C11_BlurClearsStatus ==
    Created =>
        /\ BlurStatus(keyStatus) = InitialKeyStatus
        /\ onWindowBlur(Cur, keyStatus).modifierKeyStatus

\* C11 without the ctrl key: the fields the blur listener does assign.
C11_BlurClearsAltShift ==
    Created =>
        /\ ~BlurStatus(keyStatus).altKey
        /\ ~BlurStatus(keyStatus).shiftKey
        /\ BlurStatus(keyStatus).lastKeyPressed = "none"
        /\ BlurStatus(keyStatus).lastKeyReleased = "none"
        /\ onWindowBlur(Cur, keyStatus).modifierKeyStatus

\* Alt going down, the keys held in ks staying as they are
AltDownFrom(ks) == [altKey |-> TRUE, ctrlKey |-> ks.ctrlKey, shiftKey |-> ks.shiftKey]

\* the part and the tracker's status after Alt went down from the current
\* state, then (if mid # the Alt-down event) one of ctrl and shift went down
\* or up while Alt was held
AltHeld(mid) ==
    LET e1 == AltDownFrom(keyStatus)
        ks1 == KeyDownStatus(keyStatus, e1)
        s1 == Returned(onKeyDown(Cur, keyStatus, e1))
        down == (mid.ctrlKey /\ ~e1.ctrlKey) \/ (mid.shiftKey /\ ~e1.shiftKey)
    IN  IF mid = e1 THEN [part |-> s1, status |-> ks1]
        ELSE IF down
             THEN [part |-> Returned(onKeyDown(s1, ks1, mid)),
                   status |-> KeyDownStatus(ks1, mid)]
             ELSE [part |-> Returned(onKeyUp(s1, ks1, mid)),
                   status |-> KeyUpStatus(ks1, mid)]

\* the part after the Alt release that follows AltHeld(mid)
AltReleased(mid) ==
    onKeyUp(AltHeld(mid).part, AltHeld(mid).status, [mid EXCEPT !.altKey = FALSE])

\* the events that can follow Alt going down while it is held: none (the
\* Alt-down event itself), or one of ctrl and shift going down or up
MidEvents ==
    {e \in KeyEvents :
        /\ e.altKey
        /\ \/ e = AltDownFrom(keyStatus)
           \/ e.ctrlKey # keyStatus.ctrlKey /\ e.shiftKey = keyStatus.shiftKey
           \/ e.shiftKey # keyStatus.shiftKey /\ e.ctrlKey = keyStatus.ctrlKey}

\* C12: the bare-Alt-tap transition does not fire on an Alt release if ctrl or
\* shift was down at some moment between that Alt's press and its release:
\* the release then leaves FocusedMenu as it was and the bar focused exactly
\* if it was.  In particular shift-down, alt-down, shift-up, alt-up does not
\* focus the bar.
C12_TapNeedsNoOtherModifier ==
    (Created /\ ~keyStatus.altKey) =>
        \A mid \in MidEvents :
            (keyStatus.ctrlKey \/ keyStatus.shiftKey \/ mid.ctrlKey \/ mid.shiftKey) =>
                /\ AltReleased(mid).focusedMenu = AltHeld(mid).part.focusedMenu
                /\ isFocused(AltReleased(mid)) = isFocused(AltHeld(mid).part)

\* C12 where the other modifier is still down when Alt is released, or went
\* down after Alt did.
C12_TapNeedsAllReleasedAndAltLast ==
    (Created /\ ~keyStatus.altKey) =>
        \A mid \in MidEvents :
            (mid.ctrlKey \/ mid.shiftKey
                \/ AltHeld(mid).status.lastKeyPressed # "alt") =>
                /\ AltReleased(mid).focusedMenu = AltHeld(mid).part.focusedMenu
                /\ isFocused(AltReleased(mid)) = isFocused(AltHeld(mid).part)

\* no shift and no ctrl is held, as the CLICK listener sees it
NoChordHeld == ~(modifierKeyStatus /\ (keyStatus.shiftKey \/ keyStatus.ctrlKey))

\* C13: a click on button j with no shift/ctrl held.  If a dropdown is open on
\* j, the state becomes the resting state and no dropdown remains; if a
\* dropdown is open on another button, it is closed and one is opened on j,
\* FocusedMenu.index = j and the state OPEN; if no dropdown is open,
\* FocusedMenu.index becomes j and the state OPEN with j's dropdown shown.
C13_ClickOutcomes ==
    (Interactive /\ NoChordHeld) =>
        \A j \in 0..(numMenus - 1) :
            IF focusedMenu.widget /\ focusedMenu.index = j
            THEN /\ onButtonClick(Cur, j, keyStatus).focusState = RestingState
                 /\ ~onButtonClick(Cur, j, keyStatus).focusedMenu.widget
                 /\ onButtonClick(Cur, j, keyStatus).liveWidgets = liveWidgets - 1
            ELSE IF focusedMenu.widget
            THEN /\ onButtonClick(Cur, j, keyStatus).focusState = OPEN
                 /\ onButtonClick(Cur, j, keyStatus).focusedMenu = OpenMenuAt(j)
                 /\ onButtonClick(Cur, j, keyStatus).liveWidgets = liveWidgets
            ELSE /\ onButtonClick(Cur, j, keyStatus).focusState = OPEN
                 /\ onButtonClick(Cur, j, keyStatus).focusedMenu = OpenMenuAt(j)
                 /\ onButtonClick(Cur, j, keyStatus).liveWidgets = liveWidgets + 1

\* C13 in the states whose dropdown is shown exactly while the state is OPEN.
C13_ClickOutcomesWhileConsistent ==
    (Interactive /\ NoChordHeld /\ (isOpen(Cur) <=> focusedMenu.widget)) =>
        \A j \in 0..(numMenus - 1) :
            IF focusedMenu.widget /\ focusedMenu.index = j
            THEN /\ onButtonClick(Cur, j, keyStatus).focusState = RestingState
                 /\ ~onButtonClick(Cur, j, keyStatus).focusedMenu.widget
                 /\ onButtonClick(Cur, j, keyStatus).liveWidgets = liveWidgets - 1
            ELSE IF focusedMenu.widget
            THEN /\ onButtonClick(Cur, j, keyStatus).focusState = OPEN
                 /\ onButtonClick(Cur, j, keyStatus).focusedMenu = OpenMenuAt(j)
                 /\ onButtonClick(Cur, j, keyStatus).liveWidgets = liveWidgets
            ELSE /\ onButtonClick(Cur, j, keyStatus).focusState = OPEN
                 /\ onButtonClick(Cur, j, keyStatus).focusedMenu = OpenMenuAt(j)
                 /\ onButtonClick(Cur, j, keyStatus).liveWidgets = liveWidgets + 1

\* C14: a click on a button while shift or ctrl is held is ignored: the part
\* after the click is the part before it (state, FocusedMenu, open dropdown),
\* in every state of the bar.
C14_ChordClickIgnored ==
    (Interactive /\ ~NoChordHeld) =>
        \A j \in 0..(numMenus - 1) : onButtonClick(Cur, j, keyStatus) = Cur

\* C14 while the bar is not focused.
C14_ChordClickIgnoredUnfocused ==
    (Interactive /\ ~NoChordHeld /\ ~isFocused(Cur)) =>
        \A j \in 0..(numMenus - 1) : onButtonClick(Cur, j, keyStatus) = Cur

\* the part after a handler that disposes the open dropdown: one that
\* replaces it by the dropdown of another button (click, mouse-enter, arrow
\* key), or one that changes the state (cancel, window click, focus out,
\* window focus lost, action run)
AfterDropdownDisposed ==
    {Returned(onButtonClick(Cur, j, keyStatus)) :
        j \in {i \in 0..(numMenus - 1) : i # focusedMenu.index /\ NoChordHeld}}
    \cup {Returned(onButtonMouseEnter(Cur, j)) :
        j \in {i \in 0..(numMenus - 1) : i # focusedMenu.index}}
    \cup {Returned(onContainerKeyDown(Cur, key)) :
        key \in {k \in {"LeftArrow", "RightArrow"} : numMenus >= 2}}
    \cup {Returned(onDidCancel(Cur)), Returned(onWindowClick(Cur)),
          Returned(onFocusOut(Cur)), Returned(onDidBeforeRun(Cur)),
          Returned(onDidChangeWindowFocus(Cur, FALSE))}

\* C15: the open dropdown has lost focus and its grace timer is running; the
\* dropdown is then disposed, closed by a state change or replaced by the
\* dropdown of another button.  When the timer fires it is a no-op: it closes
\* no dropdown and changes neither the state nor FocusedMenu.
C15_StaleBlurTimerIsNoOp ==
    (Interactive /\ isOpen(Cur) /\ focusedMenu.widget) =>
        \A s \in AfterDropdownDisposed : onBlurTimeout(s) = s

\* C15 where the dropdown was closed and none was opened in its place.
C15_StaleBlurTimerAfterClose ==
    (Interactive /\ isOpen(Cur) /\ focusedMenu.widget) =>
        \A s \in AfterDropdownDisposed :
            ~s.focusedMenu.widget => onBlurTimeout(s) = s

\* C16: the state and FocusedMenu are changed only inside the state
\* transition: every step of the part leaves them as they were or as one call
\* of the focusState setter, with some target state, leaves them.
C16_OnlyTransitionsWrite ==
    [][\E value \in MenubarState :
          /\ focusState' = SetFocusState(Cur, value).focusState
          /\ focusedMenu' = SetFocusState(Cur, value).focusedMenu]_vars

\* C17: a button's action list is only replaced, never edited in place: the
\* array an open dropdown was built from is never emptied, appended to or
\* otherwise modified, by a rebuild or by a registry-change notification.
C17_SnapshotNeverEditedInPlace == widgetActions.list # "edited"

\* how many entries of the action list are separators
Separators(list) == Cardinality({i \in 1..Len(list) : list[i] = Separator})

\* how many actions of the menu are the 'open recent' action
OpenRecentActions(groups) ==
    Cardinality({p \in (1..Len(groups)) \X (1..MaxGroupLen + 1) :
                    p[2] <= Len(groups[p[1]]) /\ groups[p[1]][p[2]] = "openRecent"})

\* the separators getOpenRecentActions puts in front of one 'open recent' action
RecentSeparators(r) ==
    (IF r.loaded /\ r.workspaces > 0 THEN 1 ELSE 0)
    + (IF r.loaded /\ r.files > 0 THEN 1 ELSE 0)

\* no separator is first or last in the list, and no two are adjacent
SeparatorsInside(list) ==
    /\ list # << >> => list[1] # Separator /\ list[Len(list)] # Separator
    /\ \A i \in 1..(Len(list) - 1) : ~(list[i] = Separator /\ list[i + 1] = Separator)

\* every group of the menu has an action
AllNonEmpty(groups) == \A i \in 1..Len(groups) : groups[i] # << >>

\* C18 as claimed: the list built for a menu whose n >= 1 groups are all
\* non-empty has exactly n-1 separators, none first or last, no two adjacent;
\* the list built for a menu with no groups is empty.
C18_SeparatorsBetweenGroups ==
    /\ (menuGroups # << >> /\ AllNonEmpty(menuGroups)) =>
          /\ Separators(updateActions(menuGroups, recentlyOpened)) = Len(menuGroups) - 1
          /\ SeparatorsInside(updateActions(menuGroups, recentlyOpened))
    /\ menuGroups = << >> => updateActions(menuGroups, recentlyOpened) = << >>

\* C18 as amended: the list has the n-1 separators between the groups and,
\* in front of each 'open recent' action, the separators of the recently
\* opened entries (one if there are workspaces, one if there are files), none
\* first or last, no two adjacent; for a menu with no groups it is empty.
C18_SeparatorsBetweenGroupsAndRecent ==
    /\ (menuGroups # << >> /\ AllNonEmpty(menuGroups)) =>
          /\ Separators(updateActions(menuGroups, recentlyOpened))
                = Len(menuGroups) - 1
                  + OpenRecentActions(menuGroups) * RecentSeparators(recentlyOpened)
          /\ SeparatorsInside(updateActions(menuGroups, recentlyOpened))
    /\ menuGroups = << >> => updateActions(menuGroups, recentlyOpened) = << >>

\* C18, its case: a built list of two non-empty groups, one of them with the
\* 'open recent' action, workspaces and files being recently opened.
C18_Witness ==
    /\ Len(menuGroups) = 2
    /\ AllNonEmpty(menuGroups)
    /\ OpenRecentActions(menuGroups) = 1
    /\ RecentSeparators(recentlyOpened) = 2
    /\ menuActions = updateActions(menuGroups, recentlyOpened)
    /\ Separators(menuActions) = 3

\* the smaller of two numbers
Min(a, b) == IF a < b THEN a ELSE b

\* the entries in front of the 'open recent' action in the list built for the
\* menu whose one action it is
Injected == SubSeq(updateActions(OpenRecentMenu, recentlyOpened), 1,
                   Len(updateActions(OpenRecentMenu, recentlyOpened)) - 1)

\* C19: with W recently opened workspaces and F recently opened files, the
\* entries right in front of the 'open recent' action are, in order, the first
\* min(W,5) workspaces, a separator iff W > 0, the first min(F,5) files, a
\* separator iff F > 0; there is none if W = 0 and F = 0 or if the list is not
\* loaded; the 'open recent' action follows them, and nothing is put in front
\* of another action.
C19_RecentlyOpenedInjection ==
    LET W == recentlyOpened.workspaces
        F == recentlyOpened.files
        w == Min(W, 5)
        f == Min(F, 5)
        sw == IF W > 0 THEN 1 ELSE 0
        sf == IF F > 0 THEN 1 ELSE 0
        built == updateActions(OpenRecentMenu, recentlyOpened)
    IN  /\ built[Len(built)] = Entry("openRecent", 0, << >>)
        /\ ~recentlyOpened.loaded => Injected = << >>
        /\ recentlyOpened.loaded =>
              /\ Len(Injected) = w + sw + f + sf
              /\ \A i \in 1..w : Injected[i] = Entry("openRecentWorkspace", i, << >>)
              /\ W > 0 => Injected[w + 1] = Separator
              /\ \A i \in 1..f :
                    Injected[w + sw + i] = Entry("openRecentFile", i, << >>)
              /\ F > 0 => Injected[w + sw + f + 1] = Separator
              /\ (W = 0 /\ F = 0) => Injected = << >>
        /\ updateActions(<< <<"plain">> >>, recentlyOpened)
              = <<Entry("plain", 0, << >>)>>

\* C19, its case: more than 5 workspaces and fewer than 5 files are recently
\* opened, and the list of the menu with the 'open recent' action is built.
C19_Witness ==
    /\ menuGroups = OpenRecentMenu
    /\ recentlyOpened.loaded
    /\ recentlyOpened.workspaces = 6
    /\ recentlyOpened.files = 3
    /\ menuActions = updateActions(menuGroups, recentlyOpened)
    /\ Len(menuActions) = 11

\* the positions of the mnemonic markers of a label: two ampersands before a
\* character of the same line
Markers(label) ==
    {i \in 1..(Len(label) - 2) :
        label[i] = "&" /\ label[i + 1] = "&" /\ label[i + 2] # "\n"}

ExactlyOneMarker(label) == Cardinality(Markers(label)) = 1

\* the label with the two ampersands of its one marker taken out
MarkerRemoved(label) ==
    LET i == CHOOSE m \in Markers(label) : TRUE
    IN  SubSeq(label, 1, i - 1) \o SubSeq(label, i + 2, Len(label))

\* the label with its one marked character between the mnemonic tags
Underlined(label) ==
    LET i == CHOOSE m \in Markers(label) : TRUE
    IN  SubSeq(label, 1, i - 1)
            \o <<"<mnemonic>", label[i + 2], "</mnemonic>">>
            \o SubSeq(label, i + 3, Len(label))

\* the label the action has before the mnemonics setting is applied
SourceLabel ==
    IF menuAction.id \in DynamicIds THEN DynamicLabel(menuAction) ELSE menuAction.label

CleanlyUnfocused(t) ==
    /\ t.liveWidgets = 0
    /\ t.focusedMenu = NoMenu
    /\ ~t.focusToReturn
    /\ t.container = IF t.focusState = HIDDEN THEN "hidden" ELSE "visible"

\* C21: in every reachable state, the setter called with HIDDEN or VISIBLE,
\* the state being another one, either throws or leaves the new state with no
\* dropdown live, the focused menu absent, the element to return the focus to
\* forgotten, and the container hidden in HIDDEN and shown in VISIBLE.
C21_UnfocusedTransitionsClean ==
    \A value \in {HIDDEN, VISIBLE} :
        (value # focusState /\ ~SetFocusState(Cur, value).thrown) =>
            /\ SetFocusState(Cur, value).focusState = value
            /\ CleanlyUnfocused(SetFocusState(Cur, value))

\* C21, in part: the same from FOCUSED and from OPEN, for what the setter
\* itself clears: the dropdown, the focused menu and the element to return to
C21_FocusLostClean ==
    \A value \in {HIDDEN, VISIBLE} :
        (isFocused(Cur) /\ ~SetFocusState(Cur, value).thrown) =>
            /\ SetFocusState(Cur, value).focusState = value
            /\ SetFocusState(Cur, value).liveWidgets = 0
            /\ SetFocusState(Cur, value).focusedMenu = NoMenu
            /\ ~SetFocusState(Cur, value).focusToReturn

\* C22: whenever the state is OPEN and the dropdown of button i is live, its
\* cancel (Escape inside it) ends, without a throw, in the state FOCUSED with
\* the focused menu still present at index i and with no dropdown live.
C22_CancelReturnsToFocused ==
    (focusState = OPEN /\ focusedMenu.widget) =>
        /\ ~onDidCancel(Cur).thrown
        /\ onDidCancel(Cur).focusState = FOCUSED
        /\ onDidCancel(Cur).focusedMenu = MenuAt(focusedMenu.index)
        /\ onDidCancel(Cur).liveWidgets = 0
        /\ onDidCancel(Cur).widgetActions = NoActionsHeld

\* C22, its case: the dropdown of the second of two buttons is open and is
\* cancelled; the second button stays focused
C22_Witness ==
    /\ numMenus = 2
    /\ focusState = OPEN
    /\ focusedMenu = OpenMenuAt(1)
    /\ liveWidgets = 1
    /\ onDidCancel(Cur).focusState = FOCUSED
    /\ onDidCancel(Cur).focusedMenu = MenuAt(1)

\* C23: the mouse enters button j, the buttons being there to be hovered.
\* While the state is OPEN on another button, the dropdown that was open is
\* disposed and the only live dropdown is the one of j, the state stays OPEN
\* and the focused menu is at j; while the state is FOCUSED, the focused menu
\* moves to j and no dropdown is created; while the state is HIDDEN or
\* VISIBLE, or OPEN on j itself, the part is left as it was.
C23_MouseEnterOutcomes ==
    Interactive =>
        \A j \in 0..(numMenus - 1) :
            /\ ~onButtonMouseEnter(Cur, j).thrown
            /\ IF focusState = OPEN /\ focusedMenu.present /\ focusedMenu.index # j
               THEN /\ onButtonMouseEnter(Cur, j).focusState = OPEN
                    /\ onButtonMouseEnter(Cur, j).focusedMenu = OpenMenuAt(j)
                    /\ onButtonMouseEnter(Cur, j).liveWidgets = 1
                    /\ onButtonMouseEnter(Cur, j).widgetActions = ActionsHeld(j)
               ELSE IF focusState = FOCUSED
               THEN /\ onButtonMouseEnter(Cur, j).focusState = FOCUSED
                    /\ onButtonMouseEnter(Cur, j).focusedMenu = MenuAt(j)
                    /\ onButtonMouseEnter(Cur, j).liveWidgets = liveWidgets
               ELSE IF focusState \in {HIDDEN, VISIBLE} \/ isCurrentMenu(Cur, j)
               THEN onButtonMouseEnter(Cur, j) = Cur
               ELSE TRUE

\* C23, its case: the dropdown of the first of two buttons is open and the
\* mouse enters the second, whose dropdown replaces it
C23_Witness ==
    /\ Interactive
    /\ numMenus = 2
    /\ focusState = OPEN
    /\ focusedMenu = OpenMenuAt(0)
    /\ onButtonMouseEnter(Cur, 1).focusedMenu = OpenMenuAt(1)
    /\ onButtonMouseEnter(Cur, 1).liveWidgets = 1
    /\ onButtonMouseEnter(Cur, 0) = Cur

\* the handler returned with the focus dropped: the state is the resting state
\* of the visibility mode and the focused menu is absent
FocusDropped(t) ==
    /\ ~t.thrown
    /\ t.focusState = RestingState
    /\ t.focusedMenu = NoMenu

\* Alt going down and up again, no other key in between, from the keys ks
AltTap(s, ks) ==
    onKeyUp(Returned(onKeyDown(s, ks, AltOnly)), KeyDownStatus(ks, AltOnly), NoModifier)

\* C24: Escape on the container while the state is FOCUSED, a click outside
\* the bar while it is FOCUSED or OPEN, and a tap of Alt alone (no modifier
\* held before it) while it is FOCUSED each leave the state HIDDEN when the
\* visibility mode is toggle and VISIBLE otherwise, with the focused menu
\* absent.
C24_DropFocusTriggers ==
    /\ focusState = FOCUSED => FocusDropped(onContainerKeyDown(Cur, "Escape"))
    /\ isFocused(Cur) => FocusDropped(onWindowClick(Cur))
    /\ (focusState = FOCUSED /\ ~keyStatus.altKey /\ ~keyStatus.ctrlKey
           /\ ~keyStatus.shiftKey) =>
          FocusDropped(AltTap(Cur, keyStatus))

\* C24, its case: in a mode other than toggle the second of two buttons is
\* focused, no modifier is held, and each trigger leaves the bar VISIBLE
C24_Witness ==
    /\ menuBarVisibility = "default"
    /\ numMenus = 2
    /\ focusState = FOCUSED
    /\ focusedMenu = MenuAt(1)
    /\ ~keyStatus.altKey /\ ~keyStatus.ctrlKey /\ ~keyStatus.shiftKey
    /\ onContainerKeyDown(Cur, "Escape").focusState = VISIBLE
    /\ onWindowClick(Cur).focusedMenu = NoMenu
    /\ AltTap(Cur, keyStatus).focusState = VISIBLE

\* C25: in every reachable state whose state is OPEN a dropdown is live, and
\* it is the dropdown of the button at the focused menu's index.
C25_OpenHasDropdown ==
    focusState = OPEN =>
        /\ focusedMenu.present
        /\ focusedMenu.widget
        /\ liveWidgets >= 1
        /\ widgetActions.button = focusedMenu.index

\* C25, in part: a dropdown recorded in the focused menu is live, is the only
\* one live, and is the dropdown of the button at the focused menu's index.
C25_RecordedDropdownIsLive ==
    focusedMenu.widget =>
        /\ focusState = OPEN
        /\ liveWidgets = 1
        /\ widgetActions.button = focusedMenu.index

\* C26: in every reachable state at most one dropdown is live, and a live
\* dropdown is there only while the state is OPEN and is the one recorded in
\* the focused menu, built for the button at its index; and each handler that
\* opens a dropdown (the setter entering OPEN, a click or the mouse on a
\* button, focus-next and focus-previous) leaves at most one live.
C26_AtMostOneDropdown ==
    /\ liveWidgets <= 1
    /\ liveWidgets = 1 =>
          /\ focusState = OPEN
          /\ focusedMenu.widget
          /\ widgetActions.button = focusedMenu.index
    /\ widgetActions = NoActionsHeld <=> liveWidgets = 0
    /\ customMenus.defined =>
          /\ SetFocusState(Cur, OPEN).liveWidgets <= 1
          /\ focusNext(Cur).liveWidgets <= 1
          /\ focusPrevious(Cur).liveWidgets <= 1
          /\ \A j \in 0..(numMenus - 1) :
                /\ onButtonClick(Cur, j, keyStatus).liveWidgets <= 1
                /\ onButtonMouseEnter(Cur, j).liveWidgets <= 1
                /\ onButtonKeyUp(Cur, j, "Enter").liveWidgets <= 1

\* C26, its case: the dropdown of the first of two buttons is live and
\* Right-Arrow replaces it by the dropdown of the second
C26_Witness ==
    /\ numMenus = 2
    /\ liveWidgets = 1
    /\ focusedMenu = OpenMenuAt(0)
    /\ focusNext(Cur).focusedMenu = OpenMenuAt(1)
    /\ focusNext(Cur).liveWidgets = 1

\* C27: in every reachable state after the first layout or transition (a
\* visibility-change notification has fired), the container is shown and the
\* last notification carried the buttons' area exactly when the state is
\* VISIBLE, FOCUSED or OPEN, and the container is hidden and the last
\* notification carried the zero area exactly when the state is HIDDEN.
C27_ShownAgreesWithState ==
    lastVisibility # "none" =>
        /\ isVisible(Cur) <=> (container = "visible" /\ lastVisibility = "area")
        /\ focusState = HIDDEN <=> (container = "hidden" /\ lastVisibility = "zero")

\* C27, in part: the container and the last notification agree with each
\* other: a hidden container was announced with the zero area, and the
\* buttons' area was announced only for a container that is shown.
C27_ContainerAgreesWithNotification ==
    /\ container = "hidden" => lastVisibility = "zero"
    /\ lastVisibility = "area" => container = "visible"

\* the part after two keydown events and the keyup event that leaves no
\* modifier held, from the keys ks
TwoDownsAndUp(s, ks, first, second) ==
    LET d1 == Returned(onKeyDown(s, ks, first))
        k1 == KeyDownStatus(ks, first)
        d2 == Returned(onKeyDown(d1, k1, second))
        k2 == KeyDownStatus(k1, second)
    IN  onKeyUp(d2, k2, NoModifier)

\* C28: in toggle mode, from the state HIDDEN with no modifier held, after any
\* two keydown events (Alt going down and a key that is no modifier going
\* down while Alt is held are one such pair) followed by the keyup event that
\* leaves no modifier held, the state is HIDDEN unless the bar is FOCUSED or
\* OPEN.
C28_NotRevealedWithoutInteraction ==
    (Created /\ menuBarVisibility = "toggle" /\ focusState = HIDDEN
        /\ ~keyStatus.altKey /\ ~keyStatus.ctrlKey /\ ~keyStatus.shiftKey) =>
        \A first \in KeyEvents, second \in KeyEvents :
            \/ TwoDownsAndUp(Cur, keyStatus, first, second).thrown
            \/ isFocused(TwoDownsAndUp(Cur, keyStatus, first, second))
            \/ TwoDownsAndUp(Cur, keyStatus, first, second).focusState = HIDDEN

\* C28 for the sequences in which ctrl or shift is among the keys that went
\* down: the bar is hidden again.
C28_ChordHidesAgain ==
    (Created /\ menuBarVisibility = "toggle" /\ focusState = HIDDEN
        /\ ~keyStatus.altKey /\ ~keyStatus.ctrlKey /\ ~keyStatus.shiftKey) =>
        \A first \in KeyEvents, second \in KeyEvents :
            (second.ctrlKey \/ second.shiftKey) =>
                \/ TwoDownsAndUp(Cur, keyStatus, first, second).thrown
                \/ isFocused(TwoDownsAndUp(Cur, keyStatus, first, second))
                \/ TwoDownsAndUp(Cur, keyStatus, first, second).focusState = HIDDEN

\* a request for a rebuild is outstanding: the scheduler's timeout is pending,
\* or the rebuild was deferred
RequestPending == menuUpdater \/ updatePending

\* this step is the scheduler's timeout rebuilding the action lists
RebuildExecuted ==
    /\ menuUpdater /\ ~menuUpdater'
    /\ ~isFocused(Cur)
    /\ customMenus' = BuiltMenus

\* C29: no rebuild request is lost.  The deferred flag is set only while the
\* state is FOCUSED or OPEN; an outstanding request stays outstanding through
\* every step but the one in which the timeout rebuilds; a step that takes
\* the state below FOCUSED while the rebuild is deferred leaves the timeout
\* pending; the timeout running while the bar is focused sets the deferred
\* flag again; and, the timeout firing once it is set, an outstanding request
\* leads to a state in which the bar is focused or the action lists have
\* been rebuilt with no request left.
C29_NoRequestLost ==
    /\ [](updatePending => isFocused(Cur))
    /\ [][RequestPending => (RequestPending' \/ RebuildExecuted)]_vars
    /\ [][(updatePending /\ focusState' < FOCUSED) => menuUpdater']_vars
    /\ [][(menuUpdater /\ ~menuUpdater' /\ isFocused(Cur)) => updatePending']_vars
    /\ RequestPending ~>
          (isFocused(Cur) \/ (customMenus = BuiltMenus /\ ~RequestPending))

\* C29, its case: the registry has changed, the rebuild was deferred while a
\* dropdown was open and scheduled when the focus was dropped, and the bar
\* was focused again before the timeout ran: the timeout defers once more
C29_Witness ==
    /\ focusState = FOCUSED
    /\ menuUpdater
    /\ ~updatePending
    /\ customMenus # BuiltMenus
    /\ RunScheduled(Cur).updatePending
    /\ ~RunScheduled(Cur).menuUpdater
    /\ RunScheduled(Cur).customMenus = customMenus

====
